---- MODULE Spec2Model ----
(***************************************************************************)
(* bluebox.c: the control loop of the 13-key bluebox (KEYPAD_13 build),    *)
(* its ring buffer of recent keys, the EEPROM memory chunks, the key       *)
(* decoder and the long-press arbiter driven by the TIMER0 overflow        *)
(* handler.  The control loop is a process with a position (pc); the tick  *)
(* handler is a separate action that interleaves with it.                  *)
(***************************************************************************)
EXTENDS Integers, Sequences, FiniteSets, TLC

(***************************************************************************)
(* Program constants.                                                      *)
(***************************************************************************)
DEBOUNCE_TIME == 25
MODE_MF == 0
MODE_DTMF == 1
MODE_REDBOX == 2
MODE_GREENBOX == 3
MODE_PULSE == 4
MODE_MAX == MODE_PULSE
MODE_MIN == MODE_MF
SEIZE_LENGTH == 1000
SEIZE_PAUSE == 1500
REDBOX_PAUSE == 500
GREENBOX_PAUSE == 500
PULSE_PAUSE == 500
KP_LENGTH == 120
TONE_LENGTH_FAST == 75
TONE_LENGTH_SLOW == 120
KEY_NOTHING == 0
KEY_1 == 1
KEY_2 == 2
KEY_3 == 3
KEY_4 == 4
KEY_5 == 5
KEY_6 == 6
KEY_7 == 7
KEY_8 == 8
KEY_9 == 9
KEY_STAR == 10
KEY_0 == 11
KEY_HASH == 12
KEY_SEIZE == 13
DTMF_COL1 == 1209
DTMF_COL2 == 1336
DTMF_COL3 == 1477
DTMF_ROW1 == 697
DTMF_ROW2 == 770
DTMF_ROW3 == 852
DTMF_ROW4 == 941
MF1 == 700
MF2 == 900
MF3 == 1100
MF4 == 1300
MF5 == 1500
MF6 == 1700
RB1 == 1700
RB2 == 2200
UKBB == 1000
SEIZE == 2600
LONGPRESS_TIME == 2000
EEPROM_CHUNK_SIZE == 41
EEPROM_STARTUP_TONE_MODE == 1
EEPROM_STARTUP_TONE_LENGTH == 2
EEPROM_MEM1 == 3
BUFFER_SIZE == EEPROM_CHUNK_SIZE
ERASED == 255
NULL == 0
EEPROM_SIZE == EEPROM_MEM1 + 12 * EEPROM_CHUNK_SIZE
SINE_SAMPLES == 255
TICKS_PER_CYCLE == 256
SINE_MIDPOINT == 128
STEP_SHIFT == 6
F_CPU == 20000000
SAMPLES_PER_HERTZ_TIMES_256 ==
    (SINE_SAMPLES * (TICKS_PER_CYCLE * (2 ^ STEP_SHIFT))) \div (F_CPU \div 256)
OVERFLOW_PER_MILLISEC == (F_CPU \div TICKS_PER_CYCLE) \div 1000

MemKeys == KEY_1..KEY_HASH
Modes == MODE_MIN..MODE_MAX

(***************************************************************************)
(* key2chunk: the EEPROM address of a key's memory chunk, NULL for a key   *)
(* without one.  EEPROM_MEMn is EEPROM_MEM1 + (n - 1) * EEPROM_CHUNK_SIZE. *)
(***************************************************************************)
EEPROM_MEM(n) == EEPROM_MEM1 + (n - 1) * EEPROM_CHUNK_SIZE

(* key2chunk counting the chunks from 0. *)
key2chunk_from_zero(k) ==
    IF k \in MemKeys THEN EEPROM_MEM1 + k * EEPROM_CHUNK_SIZE ELSE NULL

key2chunk(k) ==
    CASE k = KEY_1 -> EEPROM_MEM(1)
      [] k = KEY_2 -> EEPROM_MEM(2)
      [] k = KEY_3 -> EEPROM_MEM(3)
      [] k = KEY_4 -> EEPROM_MEM(4)
      [] k = KEY_5 -> EEPROM_MEM(5)
      [] k = KEY_6 -> EEPROM_MEM(6)
      [] k = KEY_7 -> EEPROM_MEM(7)
      [] k = KEY_8 -> EEPROM_MEM(8)
      [] k = KEY_9 -> EEPROM_MEM(9)
      [] k = KEY_STAR -> EEPROM_MEM(10)
      [] k = KEY_0 -> EEPROM_MEM(11)
      [] k = KEY_HASH -> EEPROM_MEM(12)
      [] OTHER -> NULL

(***************************************************************************)
(* getkey's classification of an accepted 8-bit reading.                   *)
(***************************************************************************)
Classify(v) ==
    IF v < 13 THEN KEY_NOTHING
    ELSE IF v > 233 THEN KEY_1
    ELSE IF v > 211 /\ v <= 232 THEN KEY_2
    ELSE IF v > 192 /\ v <= 210 THEN KEY_3
    ELSE IF v > 174 /\ v <= 191 THEN KEY_4
    ELSE IF v > 155 /\ v <= 173 THEN KEY_5
    ELSE IF v > 137 /\ v <= 154 THEN KEY_6
    ELSE IF v > 119 /\ v <= 136 THEN KEY_7
    ELSE IF v > 101 /\ v <= 118 THEN KEY_8
    ELSE IF v > 82 /\ v <= 100 THEN KEY_9
    ELSE IF v > 64 /\ v <= 81 THEN KEY_STAR
    ELSE IF v > 46 /\ v <= 63 THEN KEY_0
    ELSE IF v > 27 /\ v <= 45 THEN KEY_HASH
    ELSE IF v > 16 /\ v <= 26 THEN KEY_SEIZE
    ELSE KEY_NOTHING

(***************************************************************************)
(* The ADC reading of each key on the resistor ladder at Vdd = 5 V (the    *)
(* values getkey's comments give) and of no key (the pull-down).           *)
(***************************************************************************)
KeyVolts(k) ==
    CASE k = KEY_1 -> 246
      [] k = KEY_2 -> 219
      [] k = KEY_3 -> 201
      [] k = KEY_4 -> 183
      [] k = KEY_5 -> 165
      [] k = KEY_6 -> 146
      [] k = KEY_7 -> 128
      [] k = KEY_8 -> 110
      [] k = KEY_9 -> 91
      [] k = KEY_STAR -> 73
      [] k = KEY_0 -> 55
      [] k = KEY_HASH -> 37
      [] k = KEY_SEIZE -> 18
      [] OTHER -> 0

(***************************************************************************)
(* The calls process_key makes, in order: <<"play", ms, freq_a, freq_b>>   *)
(* and <<"sleep", ms>>.                                                    *)
(***************************************************************************)
Play(d, a, b) == <<"play", d, a, b>>
Sleep(d) == <<"sleep", d>>

(* pulse() without the silence after each pulse. *)
pulse_no_gap(count) == [i \in 1..count |-> Play(66, SEIZE, SEIZE)]

pulse(count) == [i \in 1..(2 * count) |->
                    IF i % 2 = 1 THEN Play(66, SEIZE, SEIZE) ELSE Sleep(34)]

Pause(pause, d) == IF pause THEN <<Sleep(d)>> ELSE <<>>

(* The MF table with the rows of keys 4 and 5 exchanged. *)
ProcessMF_rows_swapped(len, k) ==
    CASE k = KEY_1 -> <<Play(len, MF1, MF2)>>
      [] k = KEY_2 -> <<Play(len, MF1, MF3)>>
      [] k = KEY_3 -> <<Play(len, MF2, MF3)>>
      [] k = KEY_4 -> <<Play(len, MF2, MF4)>>
      [] k = KEY_5 -> <<Play(len, MF1, MF4)>>
      [] k = KEY_6 -> <<Play(len, MF3, MF4)>>
      [] k = KEY_7 -> <<Play(len, MF1, MF5)>>
      [] k = KEY_8 -> <<Play(len, MF2, MF5)>>
      [] k = KEY_9 -> <<Play(len, MF3, MF5)>>
      [] k = KEY_STAR -> <<Play(KP_LENGTH, MF3, MF6)>>
      [] k = KEY_0 -> <<Play(len, MF4, MF5)>>
      [] k = KEY_HASH -> <<Play(len, MF5, MF6)>>
      [] OTHER -> <<>>

ProcessMF(len, k) ==
    CASE k = KEY_1 -> <<Play(len, MF1, MF2)>>
      [] k = KEY_2 -> <<Play(len, MF1, MF3)>>
      [] k = KEY_3 -> <<Play(len, MF2, MF3)>>
      [] k = KEY_4 -> <<Play(len, MF1, MF4)>>
      [] k = KEY_5 -> <<Play(len, MF2, MF4)>>
      [] k = KEY_6 -> <<Play(len, MF3, MF4)>>
      [] k = KEY_7 -> <<Play(len, MF1, MF5)>>
      [] k = KEY_8 -> <<Play(len, MF2, MF5)>>
      [] k = KEY_9 -> <<Play(len, MF3, MF5)>>
      [] k = KEY_STAR -> <<Play(KP_LENGTH, MF3, MF6)>>
      [] k = KEY_0 -> <<Play(len, MF4, MF5)>>
      [] k = KEY_HASH -> <<Play(len, MF5, MF6)>>
      [] OTHER -> <<>>

ProcessDTMF(len, k) ==
    CASE k = KEY_1 -> <<Play(len, DTMF_ROW1, DTMF_COL1)>>
      [] k = KEY_2 -> <<Play(len, DTMF_ROW1, DTMF_COL2)>>
      [] k = KEY_3 -> <<Play(len, DTMF_ROW1, DTMF_COL3)>>
      [] k = KEY_4 -> <<Play(len, DTMF_ROW2, DTMF_COL1)>>
      [] k = KEY_5 -> <<Play(len, DTMF_ROW2, DTMF_COL2)>>
      [] k = KEY_6 -> <<Play(len, DTMF_ROW2, DTMF_COL3)>>
      [] k = KEY_7 -> <<Play(len, DTMF_ROW3, DTMF_COL1)>>
      [] k = KEY_8 -> <<Play(len, DTMF_ROW3, DTMF_COL2)>>
      [] k = KEY_9 -> <<Play(len, DTMF_ROW3, DTMF_COL3)>>
      [] k = KEY_STAR -> <<Play(len, DTMF_ROW4, DTMF_COL1)>>
      [] k = KEY_0 -> <<Play(len, DTMF_ROW4, DTMF_COL2)>>
      [] k = KEY_HASH -> <<Play(len, DTMF_ROW4, DTMF_COL3)>>
      [] OTHER -> <<>>

ProcessREDBOX(k) ==
    CASE k = KEY_1 -> <<Play(66, RB1, RB2)>>
      [] k = KEY_2 -> <<Play(66, RB1, RB2), Sleep(66), Play(66, RB1, RB2)>>
      [] k = KEY_3 -> <<Play(33, RB1, RB2), Sleep(33), Play(33, RB1, RB2),
                        Sleep(33), Play(33, RB1, RB2), Sleep(33),
                        Play(33, RB1, RB2), Sleep(33), Play(33, RB1, RB2)>>
      [] k = KEY_4 -> <<Play(60, RB2, RB2)>>
      [] k = KEY_5 -> <<Play(60, RB2, RB2), Sleep(60), Play(60, RB2, RB2),
                        Sleep(60)>>
      [] k = KEY_6 -> <<Play(33, RB2, RB2), Sleep(33), Play(33, RB2, RB2),
                        Sleep(33), Play(33, RB2, RB2), Sleep(33),
                        Play(33, RB2, RB2), Sleep(33), Play(33, RB2, RB2),
                        Sleep(33)>>
      [] k = KEY_7 -> <<Play(200, UKBB, UKBB)>>
      [] k = KEY_8 -> <<Play(350, UKBB, UKBB)>>
      [] OTHER -> <<>>

Wink(a, b, d, c, e) == <<Play(90, a, b), Sleep(60), Play(d, c, e)>>

ProcessGREENBOX(k) ==
    CASE k = KEY_1 -> Wink(SEIZE, SEIZE, 900, MF1, MF3)
      [] k = KEY_2 -> Wink(SEIZE, SEIZE, 900, MF3, MF6)
      [] k = KEY_3 -> Wink(SEIZE, SEIZE, 900, MF1, MF6)
      [] k = KEY_4 -> Wink(SEIZE, SEIZE, 700, MF4, MF5)
      [] k = KEY_5 -> Wink(SEIZE, SEIZE, 700, MF2, MF5)
      [] k = KEY_6 -> Wink(SEIZE, SEIZE, 700, MF5, MF6)
      [] k = KEY_7 -> Wink(MF2, MF5, 900, MF1, MF3)
      [] k = KEY_8 -> Wink(MF2, MF5, 900, MF3, MF6)
      [] k = KEY_9 -> Wink(MF2, MF5, 900, MF1, MF6)
      [] k = KEY_STAR -> Wink(MF2, MF5, 700, MF3, MF5)
      [] k = KEY_0 -> Wink(MF2, MF5, 700, MF2, MF5)
      [] k = KEY_HASH -> Wink(MF2, MF5, 700, MF5, MF6)
      [] OTHER -> <<>>

ProcessPULSE(k) ==
    CASE k \in KEY_1..KEY_9 -> pulse(k)
      [] k = KEY_0 -> pulse(10)
      [] OTHER -> <<>>

(* process_key without the SEIZE case ahead of the mode tables. *)
process_key_seize_by_mode(mode, len, k, pause) ==
    IF k = 0 THEN <<>>
    ELSE IF mode = MODE_MF THEN ProcessMF(len, k) \o Pause(pause, len)
    ELSE IF mode = MODE_DTMF THEN ProcessDTMF(len, k) \o Pause(pause, len)
    ELSE IF mode = MODE_REDBOX
      THEN ProcessREDBOX(k) \o Pause(pause, REDBOX_PAUSE)
    ELSE IF mode = MODE_GREENBOX
      THEN ProcessGREENBOX(k) \o Pause(pause, GREENBOX_PAUSE)
    ELSE IF mode = MODE_PULSE THEN ProcessPULSE(k) \o Pause(pause, PULSE_PAUSE)
    ELSE <<>>

process_key(mode, len, k, pause) ==
    IF k = 0 THEN <<>>
    ELSE IF k = KEY_SEIZE
      THEN <<Play(SEIZE_LENGTH, SEIZE, SEIZE)>> \o Pause(pause, SEIZE_PAUSE)
    ELSE IF mode = MODE_MF THEN ProcessMF(len, k) \o Pause(pause, len)
    ELSE IF mode = MODE_DTMF THEN ProcessDTMF(len, k) \o Pause(pause, len)
    ELSE IF mode = MODE_REDBOX
      THEN ProcessREDBOX(k) \o Pause(pause, REDBOX_PAUSE)
    ELSE IF mode = MODE_GREENBOX
      THEN ProcessGREENBOX(k) \o Pause(pause, GREENBOX_PAUSE)
    ELSE IF mode = MODE_PULSE THEN ProcessPULSE(k) \o Pause(pause, PULSE_PAUSE)
    ELSE <<>>

(***************************************************************************)
(* The ring buffer.  in and out are kept as offsets into buffer.           *)
(***************************************************************************)
(* rbuf_init resetting the two pointers only. *)
rbuf_init_pointers_only(r) == [r EXCEPT !.in = 0, !.out = 0]

rbuf_init(r) == [r EXCEPT !.in = 0, !.out = 0, !.count = 0]

rbuf_isempty(r) == r.count = 0

(* rbuf_insert without the count. *)
rbuf_insert_uncounted(r, data) ==
    [r EXCEPT !.buffer[r.in] = data,
              !.in = IF r.in + 1 = BUFFER_SIZE THEN 0 ELSE r.in + 1]

rbuf_insert(r, data) ==
    [r EXCEPT !.buffer[r.in] = data,
              !.in = IF r.in + 1 = BUFFER_SIZE THEN 0 ELSE r.in + 1,
              !.count = (r.count + 1) % 256]

(* rbuf_remove reading at the write end. *)
rbuf_remove_data_at_in(r) == r.buffer[r.in]

rbuf_remove_data(r) == r.buffer[r.out]

(* rbuf_remove without advancing out. *)
rbuf_remove_stuck(r) == [r EXCEPT !.count = (r.count - 1) % 256]

rbuf_remove(r) ==
    [r EXCEPT !.out = IF r.out + 1 = BUFFER_SIZE THEN 0 ELSE r.out + 1,
              !.count = (r.count - 1) % 256]

(***************************************************************************)
(* eeprom_store's loop from index i on: the linear buffer (ee_buffer[j] is *)
(* buf[j + 1]) and the ring buffer it leaves.                              *)
(***************************************************************************)
RECURSIVE Unload(_, _, _)
Unload(r, buf, i) ==
    IF i >= EEPROM_CHUNK_SIZE THEN [buf |-> buf, rbuf |-> r]
    ELSE IF rbuf_isempty(r)
      THEN Unload(r, [buf EXCEPT ![i + 1] = ERASED], i + 1)
      ELSE Unload(rbuf_remove(r),
                  [buf EXCEPT ![i + 1] = rbuf_remove_data(r)], i + 1)

ee_buffer(mode, r) ==
    Unload(r, [j \in 1..EEPROM_CHUNK_SIZE |-> IF j = 1 THEN mode ELSE 0], 1)

(***************************************************************************)
(* EEPROM access.  The EEPROM is the sequence of its bytes, the byte at    *)
(* address a at position a + 1: eeprom_read_byte, eeprom_update_byte,      *)
(* eeprom_read_block and eeprom_update_block.                              *)
(***************************************************************************)
eeprom_read_byte(e, addr) == e[addr + 1]

eeprom_update_byte(e, addr, b) == [e EXCEPT ![addr + 1] = b]

eeprom_read_block(e, addr, n) == [j \in 1..n |-> e[addr + j]]

eeprom_update_block(e, buf, addr, n) ==
    [p \in 1..Len(e) |->
        IF p > addr /\ p <= addr + n THEN buf[p - addr] ELSE e[p]]

(***************************************************************************)
(* The image the "eeprom" Makefile target programs (ee_data), the rest     *)
(* erased.                                                                 *)
(***************************************************************************)
ee_data ==
    [p \in 1..EEPROM_SIZE |->
        IF p - 1 = EEPROM_STARTUP_TONE_MODE THEN MODE_MF
        ELSE IF p - 1 = EEPROM_STARTUP_TONE_LENGTH THEN TONE_LENGTH_FAST
        ELSE ERASED]

(***************************************************************************)
(* The waveform table and the oscillators.  ToneStep is the step play()    *)
(* computes for a frequency (the 32-bit product does not overflow for the   *)
(* frequencies played here; the step is 16 bits wide); Oscillate the       *)
(* advance of one oscillator on a carrier overflow (16-bit addition, then  *)
(* one conditional subtraction of the scaled table length); Sample the     *)
(* table bytes a place can read, any byte for a place past the table; Mix  *)
(* the levels the handler can write for two places.                        *)
(***************************************************************************)
sine_table ==
    <<
      128, 131, 134, 137, 140, 143, 146, 149, 152, 155, 158, 162,
      165, 167, 170, 173, 176, 179, 182, 185, 188, 190, 193, 196,
      198, 201, 203, 206, 208, 211, 213, 215, 218, 220, 222, 224,
      226, 228, 230, 232, 234, 235, 237, 238, 240, 241, 243, 244,
      245, 246, 248, 249, 250, 250, 251, 252, 253, 253, 254, 254,
      254, 255, 255, 255, 255, 255, 255, 255, 254, 254, 254, 253,
      253, 252, 251, 250, 250, 249, 248, 246, 245, 244, 243, 241,
      240, 238, 237, 235, 234, 232, 230, 228, 226, 224, 222, 220,
      218, 215, 213, 211, 208, 206, 203, 201, 198, 196, 193, 190,
      188, 185, 182, 179, 176, 173, 170, 167, 165, 162, 158, 155,
      152, 149, 146, 143, 140, 137, 134, 131, 128, 124, 121, 118,
      115, 112, 109, 106, 103, 100, 97, 93, 90, 88, 85, 82,
      79, 76, 73, 70, 67, 65, 62, 59, 57, 54, 52, 49,
      47, 44, 42, 40, 37, 35, 33, 31, 29, 27, 25, 23,
      21, 20, 18, 17, 15, 14, 12, 11, 10, 9, 7, 6,
      5, 5, 4, 3, 2, 2, 1, 1, 1, 0, 0, 0,
      0, 0, 0, 0, 1, 1, 1, 2, 2, 3, 4, 5,
      5, 6, 7, 9, 10, 11, 12, 14, 15, 17, 18, 20,
      21, 23, 25, 27, 29, 31, 33, 35, 37, 40, 42, 44,
      47, 49, 52, 54, 57, 59, 62, 65, 67, 70, 73, 76,
      79, 82, 85, 88, 90, 93, 97, 100, 103, 106, 109, 112,
      115, 118, 121, 124
    >>

ToneStep(freq) == ((SAMPLES_PER_HERTZ_TIMES_256 * freq) \div 256) % 65536

(* The advance without the wrap. *)
Oscillate_unwrapped(place, step) == (place + step) % 65536

Oscillate(place, step) ==
    IF (place + step) % 65536 >= SINE_SAMPLES * (2 ^ STEP_SHIFT)
      THEN ((place + step) % 65536) - SINE_SAMPLES * (2 ^ STEP_SHIFT)
      ELSE (place + step) % 65536

Sample(place) ==
    IF place \div (2 ^ STEP_SHIFT) < Len(sine_table)
      THEN {sine_table[place \div (2 ^ STEP_SHIFT) + 1]}
      ELSE 0..255

Mix(place_a, place_b) ==
    {(x + y) \div 2 : x \in Sample(place_a), y \in Sample(place_b)}

(***************************************************************************)
(* State.                                                                  *)
(*   Control loop: pc is its position; script the play()/sleep_ms() calls  *)
(*   still to make before it continues at cont; milliseconds the countdown *)
(*   of the running sleep_ms; gk_ret where the running getkey returns to   *)
(*   and retval what it returned.                                          *)
(*   Environment: held is the key on the ladder and samples_left the       *)
(*   number of conversions that will still read it; plan the presses to    *)
(*   come, <<id, i>> for press i of PlanOf(id), each press with its key k, *)
(*   the number n of conversions that read it and, when the user may do    *)
(*   something else at that point, the plan followed instead (or); quiet   *)
(*   while no press begins (start-up).                                     *)
(*   History: acts counts the long-press actions of the current hold;      *)
(*   raised whether the arbiter raised its flag during it and outlasted    *)
(*   whether the key was still down when it did; typed the short presses   *)
(*   since the buffer was last emptied; mode0 the tone mode on entry to    *)
(*   the main loop; played the <<mode, key>> pairs dispatched by the last  *)
(*   playback; stored, per memory key, the mode and keys of its last       *)
(*   store; heard the calls of start-up, this hold or a dispatch; pending  *)
(*   the raises of the millisecond flag since sleep_ms last consumed one;  *)
(*   lp_ticks the millisecond ticks since the arbiter was armed; asked the *)
(*   length of the running or last sleep_ms and spent the flags it has     *)
(*   consumed.                                                             *)
(*   Oscillators and carrier: the steps and places of the two oscillators, *)
(*   the output level OCR0A and millisec_counter; overflows counts the     *)
(*   carrier overflows modulo OVERFLOW_PER_MILLISEC and raise tells        *)
(*   whether the last one raised the millisecond flag.                     *)
(*   Keypad bench: level is the reading the ladder gives, calls the number *)
(*   of getkey calls that have returned, bounces how often level changed   *)
(*   and first what the first call returned.                               *)
(***************************************************************************)
VARIABLES pc, cont, script, milliseconds, tones_on,
          key, startup_set, just_flipped, just_wrote,
          gk_ret, retval, voltage, adch,
          tone_mode, tone_length, playback_mode,
          mem, pb_i, tone_mode_temp,
          rbuf, eeprom,
          millisec_flag, longpress_counter, longpress_on, longpress_flag,
          held, samples_left, plan, quiet, slips, wticks,
          acts, raised, outlasted, typed, mode0, played, stored,
          tone_a_step, tone_b_step, tone_a_place, tone_b_place, OCR0A,
          millisec_counter, overflows, raise,
          level, calls, bounces, first,
          heard, pending, lp_ticks, asked, spent

ctl == <<pc, cont, script, milliseconds, tones_on>>
locals == <<key, startup_set, just_flipped, just_wrote>>
gkvars == <<gk_ret, retval, voltage, adch>>
settings == <<tone_mode, tone_length, playback_mode>>
pbvars == <<mem, pb_i, tone_mode_temp>>
lpvars == <<longpress_counter, longpress_on, longpress_flag>>
envvars == <<held, samples_left, plan, quiet>>
history == <<acts, raised, outlasted, typed, mode0, played, stored>>
osc == <<tone_a_step, tone_b_step, tone_a_place, tone_b_place, OCR0A>>
carrier == <<millisec_counter, overflows, raise>>
keypad == <<level, calls, bounces, first>>
observed == <<heard, pending, lp_ticks, asked, spent>>
vars == <<pc, cont, script, milliseconds, tones_on, key, startup_set,
          just_flipped, just_wrote, gk_ret, retval, voltage, adch,
          tone_mode, tone_length, playback_mode, mem, pb_i, tone_mode_temp,
          rbuf, eeprom, millisec_flag, longpress_counter, longpress_on,
          longpress_flag, held, samples_left, plan, quiet, slips, wticks,
          acts, raised, outlasted, typed, mode0, played, stored,
          osc, carrier, keypad, observed>>

(***************************************************************************)
(* Bounds of the model.                                                    *)
(*   MaxSlips: how many millisecond ticks may fall between two sleep_ms    *)
(*   calls during one hold (inside sleep_ms every tick is consumed before  *)
(*   the next one falls).  MaxWriteTicks: how many ticks one EEPROM write   *)
(*   may last.  Tap, BootHold, Long, VeryLong: for how many conversions a  *)
(*   short press, a press at power-on, a press past one long-press         *)
(*   threshold and a press past two of them read the key.  FillTaps: the   *)
(*   longest run of short presses.  MaxPending: how many raises of the     *)
(*   millisecond flag the carrier bench lets go unconsumed.  MaxPlay: the  *)
(*   longest call, in milliseconds, the carrier bench makes.  EdgeHz: a    *)
(*   frequency whose step is the scaled table length; PastHz: one whose    *)
(*   step is past it.  MaxCalls, MaxBounces: how many getkey calls the     *)
(*   keypad bench makes and how often the ladder's level changes.          *)
(***************************************************************************)
MaxSlips == 1
MaxWriteTicks == 2
Tap == 5
BootHold == 8
Long == 185
VeryLong == 330
FillTaps == 42
MaxPending == 2
MaxPlay == 2
EdgeHz == 78830
PastHz == 100000
MaxCalls == 2
MaxBounces == 1

(***************************************************************************)
(* Scenarios: the EEPROM image found at power-on, the presses to come and  *)
(* whether the first of them is already held at power-on.                  *)
(***************************************************************************)
Press(k, n) == [k |-> k, n |-> n, or |-> ""]
PressOr(k, n, alt) == [k |-> k, n |-> n, or |-> alt]

Chunk(mode, keys) ==
    [j \in 1..EEPROM_CHUNK_SIZE |->
        IF j = 1 THEN mode
        ELSE IF j - 1 <= Len(keys) THEN keys[j - 1] ELSE ERASED]

Blank == [p \in 1..EEPROM_SIZE |-> ERASED]

Programmed ==
    eeprom_update_block(
        eeprom_update_block(ee_data, Chunk(MODE_DTMF, <<KEY_4, KEY_5, KEY_6>>),
                            EEPROM_MEM(1), EEPROM_CHUNK_SIZE),
        Chunk(MODE_MAX + 1, <<KEY_1, KEY_2>>), EEPROM_MEM(2),
        EEPROM_CHUNK_SIZE)

Pat(i) == ((i - 1) % 12) + 1

Fill(n, alts) ==
    [i \in 1..n |->
        IF (i - 1) \in DOMAIN alts THEN PressOr(Pat(i), Tap, alts[i - 1])
        ELSE Press(Pat(i), Tap)]

AfterThree ==
    <<Press(KEY_7, Long), Press(KEY_SEIZE, Long), Press(KEY_7, Tap),
      Press(KEY_1, Tap), Press(KEY_2, Tap), Press(KEY_8, Tap),
      Press(KEY_SEIZE, Tap), Press(KEY_5, Long), Press(KEY_SEIZE, Long),
      Press(KEY_3, Tap)>>

AfterPayload ==
    <<Press(KEY_7, Long), Press(KEY_SEIZE, Long), Press(KEY_7, Tap)>>

AfterBuffer ==
    <<Press(KEY_7, Long), Press(KEY_9, Tap), Press(KEY_STAR, Tap),
      Press(KEY_8, Long)>>

Taps ==
    Fill(FillTaps, (3 :> "AfterThree")
                   @@ ((EEPROM_CHUNK_SIZE - 1) :> "AfterPayload")
                   @@ (BUFFER_SIZE :> "AfterBuffer"))

AtPowerOn ==
    <<Press(KEY_SEIZE, BootHold), Press(KEY_3, BootHold), Press(KEY_2, Tap),
      Press(KEY_5, Tap), Press(KEY_9, Long), Press(KEY_SEIZE, Long),
      Press(KEY_9, Tap)>>

Twice ==
    <<PressOr(KEY_1, Tap, "ThreeSeize"),
      PressOr(KEY_4, VeryLong, "TwiceSeize")>>

TwiceSeize == <<Press(KEY_SEIZE, VeryLong)>>

ThreeSeize ==
    <<Press(KEY_3, Tap), Press(KEY_SEIZE, Long), Press(KEY_5, Tap)>>

(***************************************************************************)
(* A hold that ends on the threshold: the main loop's getkey() and the     *)
(* getkey() calls of process_longpress, LONGPRESS_TIME / DEBOUNCE_TIME     *)
(* less one, each read the key on both conversions, and the next call,     *)
(* whose debounce wait ends on the LONGPRESS_TIME-th tick, reads no key.   *)
(***************************************************************************)
Edge == 2 * (LONGPRESS_TIME \div DEBOUNCE_TIME)

Stale == <<Press(KEY_1, Tap), Press(KEY_4, Edge), Press(KEY_SEIZE, Long)>>

Override == <<Press(KEY_2, BootHold), Press(KEY_5, Tap)>>

PlanOf(id) ==
    CASE id = "Taps" -> Taps
      [] id = "AfterThree" -> AfterThree
      [] id = "AfterPayload" -> AfterPayload
      [] id = "AfterBuffer" -> AfterBuffer
      [] id = "AtPowerOn" -> AtPowerOn
      [] id = "Twice" -> Twice
      [] id = "TwiceSeize" -> TwiceSeize
      [] id = "ThreeSeize" -> ThreeSeize
      [] id = "Override" -> Override
      [] id = "Stale" -> Stale

Ended(p) == p[2] > Len(PlanOf(p[1]))
Coming(p) == PlanOf(p[1])[p[2]]

RECURSIVE Options(_)
Options(p) ==
    IF Ended(p) THEN {}
    ELSE {p} \cup (IF Coming(p).or = "" THEN {}
                   ELSE Options(<<Coming(p).or, 1>>))

Scenarios ==
    { [img |-> Programmed, boot |-> FALSE, plan |-> "Taps"],
      [img |-> Blank, boot |-> TRUE, plan |-> "AtPowerOn"],
      [img |-> ee_data, boot |-> FALSE, plan |-> "Twice"],
      [img |-> Blank, boot |-> TRUE, plan |-> "Override"],
      [img |-> ee_data, boot |-> FALSE, plan |-> "Stale"] }

NoMem == [j \in 1..EEPROM_CHUNK_SIZE |-> 0]
NoChunk == [mode |-> ERASED, keys |-> <<>>]

Fresh ==
    /\ milliseconds = 0
    /\ tones_on = FALSE
    /\ key = 0 /\ startup_set = FALSE
    /\ just_flipped = FALSE /\ just_wrote = FALSE
    /\ gk_ret = "boot" /\ retval = 0 /\ voltage = 0 /\ adch = 0
    /\ tone_mode = 0 /\ tone_length = 0 /\ playback_mode = FALSE
    /\ mem = NoMem /\ pb_i = 0 /\ tone_mode_temp = 0
    /\ rbuf = [buffer |-> [j \in 0..(BUFFER_SIZE - 1) |-> 0],
               in |-> 0, out |-> 0, count |-> 0]
    /\ millisec_flag = FALSE
    /\ longpress_counter = 0 /\ longpress_on = FALSE /\ longpress_flag = FALSE
    /\ slips = 0 /\ wticks = 0
    /\ acts = 0 /\ raised = FALSE /\ outlasted = FALSE /\ typed = <<>>
    /\ mode0 = ERASED
    /\ played = <<>> /\ stored = [k \in MemKeys |-> NoChunk]
    /\ tone_a_step = 0 /\ tone_b_step = 0
    /\ tone_a_place = 0 /\ tone_b_place = 0 /\ OCR0A = 0
    /\ millisec_counter = OVERFLOW_PER_MILLISEC
    /\ overflows = 0 /\ raise = FALSE
    /\ calls = 0 /\ bounces = 0 /\ first = KEY_NOTHING
    /\ heard = <<>> /\ pending = 0 /\ lp_ticks = 0 /\ asked = 0 /\ spent = 0

Init ==
    /\ Fresh
    /\ pc = "boot" /\ cont = "boot" /\ script = <<>>
    /\ level = 0
    /\ \E sc \in Scenarios :
          /\ eeprom = sc.img
          /\ held = IF sc.boot THEN PlanOf(sc.plan)[1].k ELSE 0
          /\ samples_left = IF sc.boot THEN PlanOf(sc.plan)[1].n ELSE 0
          /\ plan = <<sc.plan, IF sc.boot THEN 2 ELSE 1>>
          /\ quiet = ~sc.boot

(***************************************************************************)
(* ISR(TIM0_OVF_vect), the overflow on which millisec_counter reaches 0:   *)
(* the millisecond flag and the long-press countdown.                      *)
(***************************************************************************)
(* The long-press countdown without its reload. *)
MillisecElapsed_no_reload ==
    /\ millisec_flag' = TRUE
    /\ IF longpress_on
         THEN /\ longpress_counter' = (longpress_counter - 1) % 65536
              /\ longpress_flag' = ((longpress_counter - 1) % 65536 = 0)
         ELSE UNCHANGED <<longpress_counter, longpress_flag>>
    /\ UNCHANGED longpress_on

(* The long-press flag left raised by the ticks that follow its raise. *)
MillisecElapsed_flag_latched ==
    /\ millisec_flag' = TRUE
    /\ IF longpress_on
         THEN IF (longpress_counter - 1) % 65536 = 0
                THEN /\ longpress_counter' = LONGPRESS_TIME
                     /\ longpress_flag' = TRUE
                ELSE /\ longpress_counter' = (longpress_counter - 1) % 65536
                     /\ longpress_flag' = longpress_flag
         ELSE UNCHANGED <<longpress_counter, longpress_flag>>
    /\ UNCHANGED longpress_on

MillisecElapsed ==
    /\ millisec_flag' = TRUE
    /\ IF longpress_on
         THEN IF (longpress_counter - 1) % 65536 = 0
                THEN /\ longpress_counter' = LONGPRESS_TIME
                     /\ longpress_flag' = TRUE
                ELSE /\ longpress_counter' = (longpress_counter - 1) % 65536
                     /\ longpress_flag' = FALSE
         ELSE UNCHANGED <<longpress_counter, longpress_flag>>
    /\ UNCHANGED longpress_on

(***************************************************************************)
(* When a millisecond tick can fall: inside sleep_ms only once the last    *)
(* one was consumed; between two sleep_ms calls only while a key is being  *)
(* held, at most MaxSlips times a hold; during an EEPROM write up to       *)
(* MaxWriteTicks times, whether or not the flag is still raised.           *)
(***************************************************************************)
TickAllowed ==
    IF pc = "ee_wait" THEN wticks < MaxWriteTicks
    ELSE ~millisec_flag /\ (pc = "sleep" \/ (longpress_on /\ slips < MaxSlips))

MsTick ==
    /\ TickAllowed
    /\ MillisecElapsed
    /\ slips' = IF pc \in {"sleep", "ee_wait"} THEN slips ELSE slips + 1
    /\ wticks' = IF pc = "ee_wait" THEN wticks + 1 ELSE wticks
    /\ raised' = (raised \/ (longpress_on /\ longpress_counter = 1))
    /\ outlasted' = (outlasted \/ (longpress_on /\ longpress_counter = 1
                                     /\ samples_left > 0))
    /\ UNCHANGED <<ctl, locals, gkvars, settings, pbvars, rbuf, eeprom,
                   envvars, acts, typed, mode0, played, stored>>
    /\ pending' = pending + 1
    /\ lp_ticks' = IF longpress_on THEN lp_ticks + 1 ELSE lp_ticks
    /\ UNCHANGED <<osc, carrier, keypad, heard, asked, spent>>

(***************************************************************************)
(* play() and sleep_ms().                                                  *)
(***************************************************************************)
(* Where control goes after a process_key() call of the dispatch bench. *)
Dispatched == {"dp_key_done", "dp_mem_done"}

RunPlay ==
    /\ pc = "run" /\ script # <<>> /\ Head(script)[1] = "play"
    /\ tones_on' = TRUE
    /\ milliseconds' = Head(script)[2]
    /\ script' = <<<<"off">>>> \o Tail(script)
    /\ pc' = IF Head(script)[2] > 0 THEN "sleep" ELSE "run"
    /\ UNCHANGED <<cont, locals, gkvars, settings, pbvars, rbuf, eeprom,
                   millisec_flag, lpvars, envvars, slips, wticks, history>>
    /\ tone_a_step' = ToneStep(Head(script)[3])
    /\ tone_b_step' = IF Head(script)[4] = 0 THEN ToneStep(Head(script)[3])
                       ELSE ToneStep(Head(script)[4])
    /\ tone_a_place' = 0
    /\ tone_b_place' = 0
    /\ heard' = IF longpress_on \/ cont \in {"startup"} \cup Dispatched
                   THEN Append(heard, Head(script)) ELSE heard
    /\ asked' = Head(script)[2]
    /\ spent' = 0
    /\ UNCHANGED <<OCR0A, carrier, keypad, pending, lp_ticks>>

RunOff ==
    /\ pc = "run" /\ script # <<>> /\ Head(script)[1] = "off"
    /\ tones_on' = FALSE
    /\ script' = Tail(script)
    /\ UNCHANGED <<pc, cont, milliseconds, locals, gkvars, settings, pbvars,
                   rbuf, eeprom, millisec_flag, lpvars, envvars, slips,
                   wticks, history>>
    /\ UNCHANGED <<osc, carrier, keypad, observed>>

RunSleep ==
    /\ pc = "run" /\ script # <<>> /\ Head(script)[1] = "sleep"
    /\ milliseconds' = Head(script)[2]
    /\ script' = Tail(script)
    /\ pc' = IF Head(script)[2] > 0 THEN "sleep" ELSE "run"
    /\ UNCHANGED <<cont, tones_on, locals, gkvars, settings, pbvars, rbuf,
                   eeprom, millisec_flag, lpvars, envvars, slips, wticks,
                   history>>
    /\ asked' = Head(script)[2]
    /\ spent' = 0
    /\ heard' = IF cont \in Dispatched
                   THEN Append(heard, Head(script)) ELSE heard
    /\ UNCHANGED <<osc, carrier, keypad, pending, lp_ticks>>

RunReturn ==
    /\ pc = "run" /\ script = <<>>
    /\ pc' = cont
    /\ UNCHANGED <<cont, script, milliseconds, tones_on, locals, gkvars,
                   settings, pbvars, rbuf, eeprom, millisec_flag, lpvars,
                   envvars, slips, wticks, history>>
    /\ UNCHANGED <<osc, carrier, keypad, observed>>

(* sleep_ms() clearing the flag without counting the millisecond. *)
sleep_ms_no_decrement ==
    /\ pc = "sleep" /\ millisec_flag
    /\ millisec_flag' = FALSE
    /\ pending' = 0
    /\ UNCHANGED <<pc, milliseconds, cont, script, tones_on, locals, gkvars,
                   settings, pbvars, rbuf, eeprom, lpvars, envvars, slips,
                   wticks, history>>
    /\ UNCHANGED <<osc, carrier, keypad, heard, lp_ticks, asked, spent>>

sleep_ms ==
    /\ pc = "sleep" /\ millisec_flag
    /\ millisec_flag' = FALSE
    /\ milliseconds' = milliseconds - 1
    /\ pc' = IF milliseconds > 1 THEN "sleep" ELSE "run"
    /\ UNCHANGED <<cont, script, tones_on, locals, gkvars, settings, pbvars,
                   rbuf, eeprom, lpvars, envvars, slips, wticks, history>>
    /\ pending' = 0
    /\ spent' = spent + 1
    /\ UNCHANGED <<osc, carrier, keypad, heard, lp_ticks, asked>>

(***************************************************************************)
(* One ADC conversion: ADCH takes the reading of what the ladder shows.    *)
(* A new press begins once the release of the last one has been seen.      *)
(***************************************************************************)
Convert ==
    \/ /\ samples_left > 0
       /\ adch' = KeyVolts(held)
       /\ samples_left' = samples_left - 1
       /\ held' = IF samples_left = 1 THEN 0 ELSE held
       /\ UNCHANGED <<plan, quiet>>
    \/ /\ samples_left = 0
       /\ adch' = KeyVolts(KEY_NOTHING)
       /\ UNCHANGED envvars
    \/ /\ samples_left = 0 /\ ~quiet /\ gk_ret # "lp_test"
       /\ \E p \in Options(plan) :
             /\ adch' = KeyVolts(Coming(p).k)
             /\ samples_left' = Coming(p).n - 1
             /\ held' = IF Coming(p).n = 1 THEN 0 ELSE Coming(p).k
             /\ plan' = <<p[1], p[2] + 1>>
       /\ UNCHANGED quiet

(***************************************************************************)
(* getkey(): the first conversion and the debounce delay, then the second  *)
(* conversion, the comparison and the classification.                      *)
(***************************************************************************)
CallGetkey(ret) ==
    /\ pc' = "gk_conv1"
    /\ gk_ret' = ret

GkConv1 ==
    /\ pc = "gk_conv1"
    /\ Convert
    /\ milliseconds' = DEBOUNCE_TIME
    /\ pc' = "sleep"
    /\ cont' = "gk_conv2"
    /\ UNCHANGED <<script, tones_on, locals, gk_ret, retval, voltage,
                   settings, pbvars, rbuf, eeprom, millisec_flag, lpvars,
                   slips, wticks, history>>
    /\ asked' = DEBOUNCE_TIME
    /\ spent' = 0
    /\ UNCHANGED <<osc, carrier, keypad, heard, pending, lp_ticks>>

GkConv2 ==
    /\ pc = "gk_conv2"
    /\ voltage' = adch
    /\ Convert
    /\ IF voltage' # adch'
         THEN pc' = "gk_conv1" /\ UNCHANGED retval
         ELSE pc' = gk_ret /\ retval' = Classify(voltage')
    /\ UNCHANGED <<cont, script, milliseconds, tones_on, locals, gk_ret,
                   settings, pbvars, rbuf, eeprom, millisec_flag, lpvars,
                   slips, wticks, history>>
    /\ UNCHANGED <<osc, carrier, keypad, observed>>

(***************************************************************************)
(* main(): start-up.                                                       *)
(***************************************************************************)
Chirps(f) == <<Play(75, f, f), Sleep(66), Play(75, f, f), Sleep(66),
               Play(75, f, f), Sleep(66), Play(75, f, f), Sleep(66)>>

(* The mode check testing for the erase value only. *)
BadMode_erased_only(m) == m = ERASED

(* The mode check without its upper bound. *)
BadMode_below_only(m) == m < MODE_MIN

BadMode(m) == m < MODE_MIN \/ m > MODE_MAX
(* The length check accepting the fast length only. *)
BadLength_fast_only(l) == l # TONE_LENGTH_FAST

BadLength(l) == l # TONE_LENGTH_SLOW /\ l # TONE_LENGTH_FAST

Boot ==
    /\ pc = "boot"
    /\ rbuf' = rbuf_init(rbuf)
    /\ tone_mode' = IF BadMode(eeprom_read_byte(eeprom, EEPROM_STARTUP_TONE_MODE))
                      THEN MODE_MIN ELSE eeprom_read_byte(eeprom, EEPROM_STARTUP_TONE_MODE)
    /\ tone_length' = IF BadLength(eeprom_read_byte(eeprom, EEPROM_STARTUP_TONE_LENGTH))
                        THEN TONE_LENGTH_FAST
                        ELSE eeprom_read_byte(eeprom, EEPROM_STARTUP_TONE_LENGTH)
    /\ script' = (IF BadMode(eeprom_read_byte(eeprom, EEPROM_STARTUP_TONE_MODE))
                    THEN Chirps(880) ELSE <<>>)
                 \o (IF BadLength(eeprom_read_byte(eeprom, EEPROM_STARTUP_TONE_LENGTH))
                       THEN Chirps(1760) ELSE <<>>)
    /\ pc' = "run"
    /\ cont' = "startup"
    /\ UNCHANGED <<milliseconds, tones_on, locals, gkvars, playback_mode,
                   pbvars, eeprom, millisec_flag, lpvars, envvars, slips,
                   wticks, history>>
    /\ UNCHANGED <<osc, carrier, keypad, observed>>

StartupKey ==
    /\ pc = "startup"
    /\ CallGetkey("su_key")
    /\ UNCHANGED <<cont, script, milliseconds, tones_on, locals, retval,
                   voltage, adch, settings, pbvars, rbuf, eeprom,
                   millisec_flag, lpvars, envvars, slips, wticks, history>>
    /\ UNCHANGED <<osc, carrier, keypad, observed>>

SuKey ==
    /\ pc = "su_key"
    /\ key' = retval
    /\ IF retval = KEY_SEIZE
         THEN /\ startup_set' = TRUE
              /\ script' = <<Play(1000, 1700, 1700)>>
              /\ pc' = "run"
              /\ cont' = "gk_conv1"
              /\ gk_ret' = "su_rel1"
         ELSE /\ pc' = "su_switch"
              /\ UNCHANGED <<startup_set, script, cont, gk_ret>>
    /\ UNCHANGED <<milliseconds, tones_on, just_flipped, just_wrote, retval,
                   voltage, adch, settings, pbvars, rbuf, eeprom,
                   millisec_flag, lpvars, envvars, slips, wticks, history>>
    /\ UNCHANGED <<osc, carrier, keypad, observed>>

SuRel1 ==
    /\ pc = "su_rel1"
    /\ IF key = retval THEN CallGetkey("su_rel1") ELSE CallGetkey("su_next")
    /\ UNCHANGED <<cont, script, milliseconds, tones_on, locals, retval,
                   voltage, adch, settings, pbvars, rbuf, eeprom,
                   millisec_flag, lpvars, envvars, slips, wticks, history>>
    /\ UNCHANGED <<osc, carrier, keypad, observed>>

SuNext ==
    /\ pc = "su_next"
    /\ key' = retval
    /\ IF retval = KEY_NOTHING
         THEN CallGetkey("su_next")
         ELSE pc' = "su_switch" /\ UNCHANGED gk_ret
    /\ UNCHANGED <<cont, script, milliseconds, tones_on, startup_set,
                   just_flipped, just_wrote, retval, voltage, adch, settings,
                   pbvars, rbuf, eeprom, millisec_flag, lpvars, envvars,
                   slips, wticks, history>>
    /\ UNCHANGED <<osc, carrier, keypad, observed>>

(* The start-up switch followed by the header write in every case. *)
SuSwitch_always_saves ==
    /\ pc = "su_switch"
    /\ tone_mode' = CASE key = KEY_1 -> MODE_MF
                      [] key = KEY_2 -> MODE_DTMF
                      [] key = KEY_3 -> MODE_REDBOX
                      [] key = KEY_4 -> MODE_GREENBOX
                      [] key = KEY_5 -> MODE_PULSE
                      [] OTHER -> tone_mode
    /\ tone_length' = IF key = KEY_HASH
                        THEN (IF tone_length = TONE_LENGTH_FAST
                                THEN TONE_LENGTH_SLOW ELSE TONE_LENGTH_FAST)
                        ELSE tone_length
    /\ script' = (IF key \in {KEY_1, KEY_2, KEY_3, KEY_4, KEY_5, KEY_HASH}
                    THEN <<>> ELSE <<Play(1000, 440, 440)>>)
                 \o (IF startup_set THEN <<Play(75, 1700, 1700)>>
                     ELSE IF key > KEY_NOTHING
                       THEN <<Play(1000, 1700, 1700)>> ELSE <<>>)
    /\ pc' = "run"
    /\ cont' = "su_write"
    /\ UNCHANGED <<milliseconds, tones_on, locals, gkvars, playback_mode,
                   pbvars, rbuf, eeprom, millisec_flag, lpvars, envvars,
                   slips, wticks, history>>
    /\ UNCHANGED <<osc, carrier, keypad, observed>>

SuSwitch ==
    /\ pc = "su_switch"
    /\ tone_mode' = CASE key = KEY_1 -> MODE_MF
                      [] key = KEY_2 -> MODE_DTMF
                      [] key = KEY_3 -> MODE_REDBOX
                      [] key = KEY_4 -> MODE_GREENBOX
                      [] key = KEY_5 -> MODE_PULSE
                      [] OTHER -> tone_mode
    /\ tone_length' = IF key = KEY_HASH
                        THEN (IF tone_length = TONE_LENGTH_FAST
                                THEN TONE_LENGTH_SLOW ELSE TONE_LENGTH_FAST)
                        ELSE tone_length
    /\ script' = (IF key \in {KEY_1, KEY_2, KEY_3, KEY_4, KEY_5, KEY_HASH}
                    THEN <<>> ELSE <<Play(1000, 440, 440)>>)
                 \o (IF startup_set THEN <<Play(75, 1700, 1700)>>
                     ELSE IF key > KEY_NOTHING
                       THEN <<Play(1000, 1700, 1700)>> ELSE <<>>)
    /\ pc' = "run"
    /\ cont' = IF startup_set THEN "su_write" ELSE "su_rel2"
    /\ UNCHANGED <<milliseconds, tones_on, locals, gkvars, playback_mode,
                   pbvars, rbuf, eeprom, millisec_flag, lpvars, envvars,
                   slips, wticks, history>>
    /\ UNCHANGED <<osc, carrier, keypad, observed>>

SuWrite ==
    /\ pc = "su_write"
    /\ eeprom' = eeprom_update_byte(
                     eeprom_update_byte(eeprom, EEPROM_STARTUP_TONE_MODE,
                                        tone_mode),
                     EEPROM_STARTUP_TONE_LENGTH, tone_length)
    /\ script' = <<Play(1000, 1500, 1500)>>
    /\ cont' = "su_rel2"
    /\ pc' = "ee_wait"
    /\ UNCHANGED <<milliseconds, tones_on, locals, gkvars, settings, pbvars,
                   rbuf, millisec_flag, lpvars, envvars, slips, wticks,
                   history>>
    /\ UNCHANGED <<osc, carrier, keypad, observed>>

eeprom_busy_wait ==
    /\ pc = "ee_wait"
    /\ pc' = "run"
    /\ wticks' = 0
    /\ UNCHANGED <<cont, script, milliseconds, tones_on, locals, gkvars,
                   settings, pbvars, rbuf, eeprom, millisec_flag, lpvars,
                   envvars, slips, history>>
    /\ UNCHANGED <<osc, carrier, keypad, observed>>

SuRel2 ==
    /\ pc = "su_rel2"
    /\ CallGetkey("su_rel2t")
    /\ quiet' = FALSE
    /\ UNCHANGED <<cont, script, milliseconds, tones_on, locals, retval,
                   voltage, adch, settings, pbvars, rbuf, eeprom,
                   millisec_flag, lpvars, held, samples_left, plan, slips,
                   wticks, history>>
    /\ UNCHANGED <<osc, carrier, keypad, observed>>

SuRel2Test ==
    /\ pc = "su_rel2t"
    /\ IF key = retval
         THEN CallGetkey("su_rel2t") /\ UNCHANGED mode0
         ELSE CallGetkey("main_got") /\ mode0' = tone_mode
    /\ UNCHANGED <<cont, script, milliseconds, tones_on, locals, retval,
                   voltage, adch, settings, pbvars, rbuf, eeprom,
                   millisec_flag, lpvars, envvars, slips, wticks, acts,
                   raised, outlasted, typed, played, stored>>
    /\ UNCHANGED <<osc, carrier, keypad, observed>>

(***************************************************************************)
(* main(): the main loop, from getkey's return to the dispatch.            *)
(***************************************************************************)
MainGot ==
    /\ pc = "main_got"
    /\ key' = retval
    /\ IF retval = KEY_NOTHING
         THEN /\ CallGetkey("main_got")
              /\ UNCHANGED <<cont, script, rbuf, typed>>
         ELSE /\ UNCHANGED gk_ret
              /\ rbuf' = IF playback_mode THEN rbuf_init(rbuf) ELSE rbuf
              /\ typed' = IF playback_mode THEN <<>> ELSE typed
              /\ IF playback_mode /\ retval # KEY_SEIZE
                   THEN pc' = "pb_entry" /\ UNCHANGED <<cont, script>>
                   ELSE /\ script' = process_key(tone_mode, tone_length,
                                                 retval, FALSE)
                        /\ pc' = "run"
                        /\ cont' = "lp_arm"
    /\ UNCHANGED <<milliseconds, tones_on, startup_set, just_flipped,
                   just_wrote, retval, voltage, adch, settings, pbvars,
                   eeprom, millisec_flag, lpvars, envvars, slips, wticks,
                   acts, raised, outlasted, mode0, played, stored>>
    /\ UNCHANGED <<osc, carrier, keypad, observed>>

(***************************************************************************)
(* eeprom_playback(key).                                                   *)
(***************************************************************************)
PbEntry ==
    /\ pc = "pb_entry"
    /\ played' = <<>>
    /\ IF key2chunk(key) = NULL
         THEN /\ script' = <<Play(1000, 1500, 1500), Sleep(66),
                            Play(1000, 1500, 1500)>>
              /\ pc' = "run"
              /\ cont' = "lp_arm"
              /\ UNCHANGED <<tone_mode, pbvars>>
         ELSE IF BadMode(eeprom_read_block(eeprom, key2chunk(key),
                                           EEPROM_CHUNK_SIZE)[1])
           THEN /\ pc' = "lp_arm"
                /\ UNCHANGED <<cont, script, tone_mode, pbvars>>
           ELSE /\ mem' = eeprom_read_block(eeprom, key2chunk(key),
                                            EEPROM_CHUNK_SIZE)
                /\ tone_mode_temp' = tone_mode
                /\ tone_mode' = mem'[1]
                /\ pb_i' = 1
                /\ pc' = "pb_loop"
                /\ UNCHANGED <<cont, script>>
    /\ UNCHANGED <<milliseconds, tones_on, locals, gkvars, tone_length,
                   playback_mode, rbuf, eeprom, millisec_flag, lpvars,
                   envvars, slips, wticks, acts, raised, outlasted, typed,
                   mode0, stored>>
    /\ UNCHANGED <<osc, carrier, keypad, observed>>

(* eeprom_playback returning without line 503. *)
PbLoop_mode_kept ==
    /\ pc = "pb_loop"
    /\ IF pb_i < EEPROM_CHUNK_SIZE /\ mem[pb_i + 1] # ERASED
         THEN /\ script' = process_key(tone_mode, tone_length, mem[pb_i + 1],
                                       TRUE)
              /\ played' = Append(played, <<tone_mode, mem[pb_i + 1]>>)
              /\ pb_i' = pb_i + 1
              /\ pc' = "run"
              /\ cont' = "pb_loop"
              /\ UNCHANGED <<tone_mode, mem, tone_mode_temp>>
         ELSE /\ pc' = "lp_arm"
              /\ mem' = NoMem /\ pb_i' = 0 /\ tone_mode_temp' = 0
              /\ UNCHANGED <<cont, script, played, tone_mode>>
    /\ UNCHANGED <<milliseconds, tones_on, locals, gkvars, tone_length,
                   playback_mode, rbuf, eeprom, millisec_flag, lpvars,
                   envvars, slips, wticks, acts, raised, outlasted, typed,
                   mode0, stored>>
    /\ UNCHANGED <<osc, carrier, keypad, observed>>

PbLoop ==
    /\ pc = "pb_loop"
    /\ IF pb_i < EEPROM_CHUNK_SIZE /\ mem[pb_i + 1] # ERASED
         THEN /\ script' = process_key(tone_mode, tone_length, mem[pb_i + 1],
                                       TRUE)
              /\ played' = Append(played, <<tone_mode, mem[pb_i + 1]>>)
              /\ pb_i' = pb_i + 1
              /\ pc' = "run"
              /\ cont' = "pb_loop"
              /\ UNCHANGED <<tone_mode, mem, tone_mode_temp>>
         ELSE /\ tone_mode' = tone_mode_temp
              /\ pc' = "lp_arm"
              /\ mem' = NoMem /\ pb_i' = 0 /\ tone_mode_temp' = 0
              /\ UNCHANGED <<cont, script, played>>
    /\ UNCHANGED <<milliseconds, tones_on, locals, gkvars, tone_length,
                   playback_mode, rbuf, eeprom, millisec_flag, lpvars,
                   envvars, slips, wticks, acts, raised, outlasted, typed,
                   mode0, stored>>
    /\ UNCHANGED <<osc, carrier, keypad, observed>>

(***************************************************************************)
(* process_longpress(key).                                                 *)
(***************************************************************************)
LpArm ==
    /\ pc = "lp_arm"
    /\ just_flipped' = FALSE
    /\ just_wrote' = FALSE
    /\ longpress_counter' = LONGPRESS_TIME
    /\ longpress_on' = TRUE
    /\ CallGetkey("lp_test")
    /\ acts' = 0
    /\ raised' = FALSE
    /\ outlasted' = FALSE
    /\ slips' = 0
    /\ UNCHANGED <<cont, script, milliseconds, tones_on, key, startup_set,
                   retval, voltage, adch, settings, pbvars, rbuf, eeprom,
                   millisec_flag, longpress_flag, envvars, wticks,
                   typed, mode0, played, stored>>
    /\ heard' = <<>>
    /\ lp_ticks' = 0
    /\ UNCHANGED <<osc, carrier, keypad, pending, asked, spent>>

Holding == key = retval /\ key # KEY_NOTHING

LpPoll ==
    /\ pc = "lp_test" /\ Holding
    /\ \/ ~longpress_flag
       \/ longpress_flag /\ key # KEY_SEIZE /\ playback_mode
    /\ CallGetkey("lp_test")
    /\ UNCHANGED <<cont, script, milliseconds, tones_on, locals, retval,
                   voltage, adch, settings, pbvars, rbuf, eeprom,
                   millisec_flag, lpvars, envvars, slips, wticks, history>>
    /\ UNCHANGED <<osc, carrier, keypad, observed>>

LpToggle ==
    /\ pc = "lp_test" /\ Holding
    /\ longpress_flag /\ key = KEY_SEIZE
    /\ rbuf' = rbuf_init(rbuf)
    /\ just_flipped' = TRUE
    /\ playback_mode' = ~playback_mode
    /\ script' = IF ~playback_mode
                   THEN <<Play(75, 1300, 1300), Play(75, 1700, 1700)>>
                   ELSE <<Play(75, 1700, 1700), Play(75, 1300, 1300)>>
    /\ pc' = "run"
    /\ cont' = "gk_conv1"
    /\ acts' = acts + 1
    /\ typed' = <<>>
    /\ UNCHANGED <<milliseconds, tones_on, key, startup_set, just_wrote,
                   gkvars, tone_mode, tone_length, pbvars, eeprom,
                   millisec_flag, lpvars, envvars, slips, wticks, raised,
                   outlasted, mode0, played, stored>>
    /\ UNCHANGED <<osc, carrier, keypad, observed>>

LpStore ==
    /\ pc = "lp_test" /\ Holding
    /\ longpress_flag /\ key # KEY_SEIZE /\ ~playback_mode
    /\ script' = <<Play(75, 1700, 1700)>>
    /\ pc' = "run"
    /\ cont' = "st_copy"
    /\ UNCHANGED <<milliseconds, tones_on, locals, gkvars, settings, pbvars,
                   rbuf, eeprom, millisec_flag, lpvars, envvars, slips,
                   wticks, history>>
    /\ UNCHANGED <<osc, carrier, keypad, observed>>

Drop(seq, n) == IF Len(seq) <= n THEN <<>> ELSE SubSeq(seq, n + 1, Len(seq))

eeprom_store ==
    /\ pc = "st_copy"
    /\ rbuf' = ee_buffer(tone_mode, rbuf).rbuf
    /\ eeprom' = eeprom_update_block(eeprom, ee_buffer(tone_mode, rbuf).buf,
                                     key2chunk(key), EEPROM_CHUNK_SIZE)
    /\ script' = <<Play(1000, 1500, 1500)>>
    /\ cont' = "st_ret"
    /\ pc' = "ee_wait"
    /\ acts' = acts + 1
    /\ stored' = [stored EXCEPT ![key] = [mode |-> tone_mode, keys |-> typed]]
    /\ typed' = Drop(typed, EEPROM_CHUNK_SIZE - 1)
    /\ UNCHANGED <<milliseconds, tones_on, locals, gkvars, settings, pbvars,
                   millisec_flag, lpvars, envvars, slips, wticks, raised,
                   outlasted, mode0, played>>
    /\ UNCHANGED <<osc, carrier, keypad, observed>>

StoreReturn ==
    /\ pc = "st_ret"
    /\ just_wrote' = TRUE
    /\ CallGetkey("lp_test")
    /\ UNCHANGED <<cont, script, milliseconds, tones_on, key, startup_set,
                   just_flipped, retval, voltage, adch, settings, pbvars,
                   rbuf, eeprom, millisec_flag, lpvars, envvars, slips,
                   wticks, history>>
    /\ UNCHANGED <<osc, carrier, keypad, observed>>

LpRelease ==
    /\ pc = "lp_test" /\ ~Holding
    /\ longpress_on' = FALSE
    /\ IF ~playback_mode /\ ~just_flipped /\ ~just_wrote
         THEN rbuf' = rbuf_insert(rbuf, key) /\ typed' = Append(typed, key)
         ELSE UNCHANGED <<rbuf, typed>>
    /\ just_flipped' = FALSE
    /\ just_wrote' = FALSE
    /\ CallGetkey("main_got")
    /\ UNCHANGED <<cont, script, milliseconds, tones_on, key, startup_set,
                   retval, voltage, adch, settings, pbvars, eeprom,
                   millisec_flag, longpress_counter, longpress_flag, envvars,
                   slips, wticks, acts, raised, outlasted, mode0, played,
                   stored>>
    /\ UNCHANGED <<osc, carrier, keypad, observed>>

Next ==
    \/ MsTick
    \/ RunPlay \/ RunOff \/ RunSleep \/ RunReturn \/ sleep_ms
    \/ GkConv1 \/ GkConv2
    \/ Boot \/ StartupKey \/ SuKey \/ SuRel1 \/ SuNext \/ SuSwitch
    \/ SuWrite \/ eeprom_busy_wait \/ SuRel2 \/ SuRel2Test
    \/ MainGot \/ PbEntry \/ PbLoop
    \/ LpArm \/ LpPoll \/ LpToggle \/ LpStore \/ eeprom_store \/ StoreReturn
    \/ LpRelease

Spec == Init /\ [][Next]_vars

(***************************************************************************)
(* The carrier bench: play() and sleep_ms() calls against the whole        *)
(* overflow handler, one step an overflow.  The handler writes the output  *)
(* level, advances the oscillators while tones are on and counts the       *)
(* overflows down to the millisecond.  The bench ends, and the handler is  *)
(* followed no further, when the last call has returned.                   *)
(***************************************************************************)
(* The countdown left to run to 0. *)
Countdown_free_running(c) == (c - 1) % 256

Countdown(c) ==
    IF (c - 1) % 256 = 0 THEN OVERFLOW_PER_MILLISEC ELSE (c - 1) % 256

(***************************************************************************)
(* When an overflow can fall in the bench: inside sleep_ms once the last   *)
(* raise was consumed; and while the control loop is away, before a        *)
(* sleep_ms call or after the last call, until MaxPending raises are       *)
(* unconsumed.                                                             *)
(***************************************************************************)
Away == pc = "run" /\ (script = <<>> \/ Head(script)[1] = "sleep")

OverflowAllowed ==
    IF Away THEN millisec_counter = 1 => pending < MaxPending
    ELSE pc = "sleep" /\ ~millisec_flag

TIM0_OVF ==
    /\ OverflowAllowed
    /\ IF tones_on
         THEN /\ OCR0A' \in Mix(tone_a_place, tone_b_place)
              /\ tone_a_place' = Oscillate(tone_a_place, tone_a_step)
              /\ tone_b_place' = Oscillate(tone_b_place, tone_b_step)
         ELSE /\ OCR0A' = SINE_MIDPOINT
              /\ UNCHANGED <<tone_a_place, tone_b_place>>
    /\ millisec_counter' = Countdown(millisec_counter)
    /\ overflows' = (overflows + 1) % OVERFLOW_PER_MILLISEC
    /\ IF (millisec_counter - 1) % 256 = 0
         THEN /\ MillisecElapsed
              /\ raise' = TRUE
              /\ pending' = pending + 1
              /\ lp_ticks' = IF longpress_on THEN lp_ticks + 1 ELSE lp_ticks
         ELSE /\ raise' = FALSE
              /\ UNCHANGED <<millisec_flag, lpvars, pending, lp_ticks>>
    /\ UNCHANGED <<ctl, locals, gkvars, settings, pbvars, rbuf, eeprom,
                   envvars, slips, wticks, history, tone_a_step, tone_b_step,
                   keypad, heard, asked, spent>>

(* The control loop is inside play(): the tones are to be switched off. *)
InPlay == script # <<>> /\ Head(script)[1] = "off"

Tunes == {<<MF4, MF6>>, <<SEIZE, 0>>, <<EdgeHz, MF4>>}

BenchScripts ==
    {<<Play(d, f[1], f[2])>> : d \in 0..MaxPlay, f \in Tunes}
    \cup {<<Play(1, MF6, PastHz)>>}
    \cup {<<Sleep(n)>> : n \in 0..MaxPlay}
    \cup {<<Play(MaxPlay, MF4, MF4), Sleep(1), Play(1, MF6, MF6)>>}

Idle ==
    /\ eeprom = ee_data
    /\ held = 0 /\ samples_left = 0 /\ plan = <<"Twice", 1>> /\ quiet = TRUE

CarrierInit ==
    /\ Fresh
    /\ Idle
    /\ level = 0
    /\ pc = "run" /\ cont = "done"
    /\ script \in BenchScripts

CarrierNext ==
    \/ TIM0_OVF
    \/ RunPlay \/ RunOff \/ RunSleep \/ RunReturn \/ sleep_ms

CarrierSpec == CarrierInit /\ [][CarrierNext]_vars

(***************************************************************************)
(* The handler keeps firing and the control loop keeps running.            *)
(***************************************************************************)
FairScripts ==
    {<<Play(d, MF4, MF6)>> : d \in 0..MaxPlay}
    \cup {<<Sleep(n)>> : n \in 0..MaxPlay}
    \cup {<<Play(MaxPlay, MF4, MF4), Sleep(1), Play(1, MF6, MF6)>>}

FairInit == CarrierInit /\ script \in FairScripts

CarrierFair ==
    /\ FairInit /\ [][CarrierNext]_vars
    /\ WF_vars(TIM0_OVF)
    /\ WF_vars(RunPlay \/ RunOff \/ RunSleep \/ RunReturn \/ sleep_ms)

(***************************************************************************)
(* The header bench: power-on with any of a set of stored headers, no key  *)
(* held, up to the start-up getkey() call.  The millisecond tick keeps     *)
(* coming and the control loop keeps running.                              *)
(***************************************************************************)
HeaderModes == {MODE_MF, MODE_DTMF, MODE_MAX, MODE_MAX + 1, ERASED}

HeaderLengths ==
    {TONE_LENGTH_FAST, TONE_LENGTH_SLOW, 0, TONE_LENGTH_FAST + 1, ERASED}

HeaderImage(m, l) ==
    eeprom_update_byte(
        eeprom_update_byte(Blank, EEPROM_STARTUP_TONE_MODE, m),
        EEPROM_STARTUP_TONE_LENGTH, l)

BootInit ==
    /\ Fresh
    /\ level = 0
    /\ pc = "boot" /\ cont = "boot" /\ script = <<>>
    /\ held = 0 /\ samples_left = 0 /\ plan = <<"Twice", 1>> /\ quiet = TRUE
    /\ \E m \in HeaderModes, l \in HeaderLengths : eeprom = HeaderImage(m, l)

BootNext ==
    \/ Boot
    \/ MsTick
    \/ RunPlay \/ RunOff \/ RunSleep \/ RunReturn \/ sleep_ms

BootSpec ==
    /\ BootInit /\ [][BootNext]_vars
    /\ WF_vars(MsTick)
    /\ WF_vars(Boot \/ RunPlay \/ RunOff \/ RunSleep \/ RunReturn \/ sleep_ms)

(***************************************************************************)
(* The dispatch bench: one process_key() call for any mode, length and     *)
(* key, made as the main loop makes it (no pause) or as eeprom_playback    *)
(* makes it (with pause), and run to its return.                           *)
(***************************************************************************)
DispatchInit ==
    /\ Fresh
    /\ Idle
    /\ level = 0
    /\ pc = "dp_set" /\ cont = "dp_set"
    /\ script = <<>>

DpSet ==
    /\ pc = "dp_set"
    /\ tone_mode' \in Modes
    /\ tone_length' \in {TONE_LENGTH_FAST, TONE_LENGTH_SLOW}
    /\ key' \in KEY_NOTHING..KEY_SEIZE
    /\ pc' \in {"dp_key", "dp_mem"}
    /\ UNCHANGED <<cont, script, milliseconds, tones_on, startup_set,
                   just_flipped, just_wrote, gkvars, playback_mode, pbvars,
                   rbuf, eeprom, millisec_flag, lpvars, envvars, slips,
                   wticks, history>>
    /\ UNCHANGED <<osc, carrier, keypad, observed>>

DpKey ==
    /\ pc = "dp_key"
    /\ script' = process_key(tone_mode, tone_length, key, FALSE)
    /\ pc' = "run"
    /\ cont' = "dp_key_done"
    /\ UNCHANGED <<milliseconds, tones_on, locals, gkvars, settings, pbvars,
                   rbuf, eeprom, millisec_flag, lpvars, envvars, slips,
                   wticks, history>>
    /\ UNCHANGED <<osc, carrier, keypad, observed>>

DpMem ==
    /\ pc = "dp_mem"
    /\ script' = process_key(tone_mode, tone_length, key, TRUE)
    /\ pc' = "run"
    /\ cont' = "dp_mem_done"
    /\ UNCHANGED <<milliseconds, tones_on, locals, gkvars, settings, pbvars,
                   rbuf, eeprom, millisec_flag, lpvars, envvars, slips,
                   wticks, history>>
    /\ UNCHANGED <<osc, carrier, keypad, observed>>

DispatchNext ==
    \/ DpSet \/ DpKey \/ DpMem
    \/ MsTick
    \/ RunPlay \/ RunOff \/ RunSleep \/ RunReturn \/ sleep_ms

DispatchSpec == DispatchInit /\ [][DispatchNext]_vars

(***************************************************************************)
(* The keypad bench: getkey() calls against a ladder that shows any 8-bit  *)
(* level and may change it while getkey runs.                              *)
(***************************************************************************)
Levels == 0..255

BounceTo == {KeyVolts(KEY_NOTHING), KeyVolts(KEY_SEIZE), KeyVolts(KEY_1)}

KeypadInit ==
    /\ Fresh
    /\ Idle
    /\ level \in Levels
    /\ pc = "kp_conv1" /\ cont = "kp_conv2"
    /\ script = <<>>

KpConv1 ==
    /\ pc = "kp_conv1"
    /\ adch' = level
    /\ milliseconds' = DEBOUNCE_TIME
    /\ asked' = DEBOUNCE_TIME
    /\ spent' = 0
    /\ pc' = "sleep"
    /\ cont' = "kp_conv2"
    /\ UNCHANGED <<script, tones_on, locals, gk_ret, retval, voltage,
                   settings, pbvars, rbuf, eeprom, millisec_flag, lpvars,
                   envvars, slips, wticks, history, osc, carrier, keypad,
                   heard, pending, lp_ticks>>

(* getkey returning without comparing the two readings. *)
KpConv2_unchecked ==
    /\ pc = "kp_conv2"
    /\ voltage' = adch
    /\ adch' = level
    /\ pc' = "kp_done"
    /\ retval' = Classify(voltage')
    /\ calls' = calls + 1
    /\ first' = IF calls = 0 THEN Classify(voltage') ELSE first
    /\ UNCHANGED <<cont, script, milliseconds, tones_on, locals, gk_ret,
                   settings, pbvars, rbuf, eeprom, millisec_flag, lpvars,
                   envvars, slips, wticks, history, osc, carrier, level,
                   bounces, observed>>

KpConv2 ==
    /\ pc = "kp_conv2"
    /\ voltage' = adch
    /\ adch' = level
    /\ IF voltage' # adch'
         THEN /\ pc' = "kp_conv1"
              /\ UNCHANGED <<retval, calls, first>>
         ELSE /\ pc' = "kp_done"
              /\ retval' = Classify(voltage')
              /\ calls' = calls + 1
              /\ first' = IF calls = 0 THEN Classify(voltage') ELSE first
    /\ UNCHANGED <<cont, script, milliseconds, tones_on, locals, gk_ret,
                   settings, pbvars, rbuf, eeprom, millisec_flag, lpvars,
                   envvars, slips, wticks, history, osc, carrier, level,
                   bounces, observed>>

KpCall ==
    /\ pc = "kp_done" /\ calls < MaxCalls
    /\ pc' = "kp_conv1"
    /\ UNCHANGED <<cont, script, milliseconds, tones_on, locals, gkvars,
                   settings, pbvars, rbuf, eeprom, millisec_flag, lpvars,
                   envvars, slips, wticks, history, osc, carrier, keypad,
                   observed>>

Bounce ==
    /\ bounces < MaxBounces /\ pc # "kp_done"
    /\ \E v \in BounceTo \ {level} : level' = v
    /\ bounces' = bounces + 1
    /\ UNCHANGED <<ctl, locals, gkvars, settings, pbvars, rbuf, eeprom,
                   millisec_flag, lpvars, envvars, slips, wticks, history,
                   osc, carrier, calls, first, observed>>

KeypadNext ==
    \/ MsTick \/ sleep_ms \/ RunReturn
    \/ KpConv1 \/ KpConv2 \/ KpCall \/ Bounce

KeypadSpec == KeypadInit /\ [][KeypadNext]_vars

(***************************************************************************)
(* Properties.                                                             *)
(***************************************************************************)
ChunkAt(k) == EEPROM_MEM1 + (k - 1) * EEPROM_CHUNK_SIZE

Released == pc = "lp_test" /\ ~Holding

InStore == pc = "st_ret" \/ (cont = "st_ret" /\ pc \in {"ee_wait", "run", "sleep"})

InPlayback == pc = "pb_loop" \/ (cont = "pb_loop" /\ pc \in {"run", "sleep"})

PlaybackReturned == pc = "lp_arm" /\ playback_mode /\ key \in MemKeys

RingKeys(r) == [i \in 1..r.count |-> r.buffer[(r.out + i - 1) % BUFFER_SIZE]]

(* C1: after any sequence of key presses, more than BUFFER_SIZE short      *)
(* presses in a row included, the ring buffer's bookkeeping is consistent: *)
(* 0 <= count <= BUFFER_SIZE and count is the number of slots from out     *)
(* forward to in modulo BUFFER_SIZE (count = BUFFER_SIZE only with         *)
(* in = out).                                                              *)
C1_RingConsistent ==
    /\ rbuf.count >= 0 /\ rbuf.count <= BUFFER_SIZE
    /\ rbuf.count % BUFFER_SIZE = (rbuf.in - rbuf.out) % BUFFER_SIZE

(* C2: one continuous hold of a key triggers at most one long-press action *)
(* (playback toggle or store) before the key is released.                  *)
C2_OneActionPerHold == acts <= 1

(* C3: a key held from the arming of the arbiter until after the arbiter   *)
(* raised its flag has triggered the long-press action (toggle for SEIZE,  *)
(* store for another key in normal mode) by the time its release is seen.  *)
C3_HeldKeyActs ==
    (Released /\ outlasted /\ (key = KEY_SEIZE \/ ~playback_mode))
        => acts >= 1

C6_InvalidChunkSilent ==
    [][(/\ pc = "pb_entry" /\ pc' # "pb_entry"
        /\ key \in MemKeys /\ eeprom_read_byte(eeprom, ChunkAt(key)) \notin Modes)
          => /\ pc' = "lp_arm"
             /\ script' = <<>> /\ tones_on' = FALSE
             /\ tone_mode' = tone_mode
             /\ eeprom' = eeprom]_vars

C6_Witness ==
    /\ PlaybackReturned
    /\ eeprom_read_byte(eeprom, ChunkAt(key)) = MODE_MAX + 1
    /\ eeprom_read_byte(eeprom, ChunkAt(key) + 1) = KEY_1
    /\ played = <<>>

(* C7: outside a running eeprom_playback, hence on each of its returns and *)
(* whenever the control loop waits for a key, tone_mode has the value it   *)
(* had when the main loop was entered.                                     *)
C7_ModeRestored == (mode0 \in Modes /\ ~InPlayback) => tone_mode = mode0

C7_Witness ==
    /\ PlaybackReturned
    /\ played # <<>> /\ played[1][1] # mode0
    /\ tone_mode = mode0

(* C8: after start-up a byte of a memory chunk changes only in the store   *)
(* of a long press on a non-SEIZE key K with playback mode off, and only   *)
(* within the EEPROM_CHUNK_SIZE bytes of chunk K; the header bytes change  *)
(* only in the start-up write.                                             *)
C8_ChunkWrites ==
    [][eeprom' = eeprom \/
       \A a \in 0..(EEPROM_SIZE - 1) :
          eeprom_read_byte(eeprom', a) # eeprom_read_byte(eeprom, a) =>
          IF a < EEPROM_MEM1 THEN pc = "su_write"
          ELSE /\ pc = "st_copy" /\ raised /\ longpress_on
               /\ key \in MemKeys /\ ~playback_mode
               /\ a >= ChunkAt(key)
               /\ a < ChunkAt(key) + EEPROM_CHUNK_SIZE]_vars

C8_Witness ==
    /\ pc = "st_ret" /\ key = KEY_9 /\ tone_mode = MODE_REDBOX
    /\ eeprom_read_byte(eeprom, ChunkAt(KEY_9)) = MODE_REDBOX
    /\ eeprom_read_byte(eeprom, ChunkAt(KEY_9) + 1) = KEY_2

(* C9: when eeprom_store returns the ring buffer is empty, whatever it     *)
(* held when eeprom_store was called.                                      *)
C9_StoreDrains == pc = "st_ret" => rbuf.count = 0

(* C10: the release of a press appends the key, and only it, to the ring   *)
(* buffer when playback mode is off and no long-press action fired during  *)
(* the press; otherwise it leaves the ring buffer as it is; and no other   *)
(* step of the control loop makes the buffer grow.                         *)
C10_ReleaseAppends ==
    [][/\ (Released /\ pc' # "lp_test") =>
            IF ~playback_mode /\ acts = 0
              THEN /\ rbuf'.buffer = [rbuf.buffer EXCEPT ![rbuf.in] = key]
                   /\ rbuf'.in = (rbuf.in + 1) % BUFFER_SIZE
                   /\ rbuf'.out = rbuf.out
                   /\ rbuf'.count = rbuf.count + 1
              ELSE rbuf' = rbuf
       /\ ~Released => rbuf'.count <= rbuf.count]_vars

C10_Witness ==
    /\ pc = "gk_conv1" /\ gk_ret = "main_got"
    /\ ~playback_mode /\ acts = 0
    /\ rbuf.count = 3 /\ rbuf.buffer[2] = KEY_3

(* C11: in the sequence [short press 3, release, hold SEIZE past the       *)
(* long-press threshold, release] with playback mode off at first, key 3   *)
(* is the ring buffer's content when SEIZE goes down, and when the         *)
(* release of SEIZE is seen playback mode is on and the hold has played    *)
(* the up-chirp pair, 75 ms at 1300 Hz then 75 ms at 1700 Hz.              *)
C11_SeizeHoldToggles ==
    /\ (plan = <<"ThreeSeize", 3>> /\ held = KEY_SEIZE /\ key # KEY_SEIZE)
          => (rbuf.count = 1 /\ rbuf_remove_data(rbuf) = KEY_3)
    /\ (plan = <<"ThreeSeize", 3>> /\ key = KEY_SEIZE /\ Released)
          => /\ playback_mode
             /\ heard = <<Play(75, 1300, 1300), Play(75, 1700, 1700)>>

(* C12: a step that changes playback_mode leaves the ring buffer empty,    *)
(* the ring buffer is empty in every state with playback mode on, and what *)
(* the ring buffer holds is always the keys of the short presses made      *)
(* since it was last emptied, so that no key pressed before or during      *)
(* playback mode is in a chunk stored after playback mode was left.        *)
C12_PlaybackEmptiesBuffer ==
    [][/\ playback_mode' # playback_mode
             => (rbuf_isempty(rbuf') /\ rbuf'.in = rbuf'.out)
       /\ playback_mode' => (rbuf_isempty(rbuf') /\ typed' = <<>>)
       /\ rbuf'.count <= BUFFER_SIZE => RingKeys(rbuf') = typed']_vars

C12_Witness ==
    /\ plan = <<"ThreeSeize", 3>> /\ key = KEY_SEIZE /\ Released
    /\ playback_mode /\ acts = 1
    /\ rbuf_isempty(rbuf) /\ rbuf.buffer[0] = KEY_3

C14_FlagEveryKth ==
    [][overflows' # overflows =>
          /\ raise' = (overflows' = 0)
          /\ raise' => millisec_flag'
          /\ ~raise' => millisec_flag' = millisec_flag
          /\ millisec_counter' = OVERFLOW_PER_MILLISEC - overflows']_vars

C14_Witness ==
    /\ raise /\ overflows = 0 /\ millisec_flag
    /\ pending = 2
    /\ millisec_counter = OVERFLOW_PER_MILLISEC

(* C15: no raise of the millisecond flag is missed: each raise is matched  *)
(* by one decrement of a sleep_ms countdown, so that at most one raise is  *)
(* waiting for its decrement at any time, wherever the control loop was    *)
(* when the flag was raised.                                               *)
C15_EveryRaiseCounted == pending <= 1

(* C16: on a millisecond tick with the arbiter armed the countdown goes    *)
(* down by one, and the long-press flag is raised, and the countdown       *)
(* reloaded to LONGPRESS_TIME, exactly on every LONGPRESS_TIME-th tick     *)
(* since arming; on a tick with the arbiter disarmed countdown and flag    *)
(* stay as they are; and no other step changes them, but for arming, which *)
(* loads the countdown with LONGPRESS_TIME.                                *)
C16_LongpressCountdown ==
    [][/\ pending' = pending + 1 =>
             IF longpress_on
               THEN /\ longpress_flag' = (lp_ticks' % LONGPRESS_TIME = 0)
                    /\ longpress_counter' =
                          LONGPRESS_TIME - (lp_ticks' % LONGPRESS_TIME)
                    /\ longpress_flag' \/ longpress_counter' = longpress_counter - 1
               ELSE /\ longpress_counter' = longpress_counter
                    /\ longpress_flag' = longpress_flag
       /\ pending' # pending + 1 =>
             /\ longpress_flag' = longpress_flag
             /\ longpress_counter' # longpress_counter =>
                   /\ pc = "lp_arm" /\ longpress_on'
                   /\ longpress_counter' = LONGPRESS_TIME]_vars

C16_Witness ==
    /\ longpress_on /\ longpress_flag
    /\ lp_ticks = 2 * LONGPRESS_TIME
    /\ longpress_counter = LONGPRESS_TIME

(* C17: with the overflow handler firing again and again, every sleep_ms   *)
(* and every play call comes to its end; each millisecond sleep_ms counts  *)
(* consumes one raised flag; play switches the tones off only after        *)
(* exactly `duration` flags were consumed, the tones are on all through    *)
(* its wait and off once it has returned; the tones are never on outside   *)
(* play, so that every overflow outside play writes the midpoint level.    *)
C17_PlayTerminates ==
    /\ <>(pc = "done")
    /\ [](tones_on => InPlay)
    /\ []((InPlay /\ pc = "sleep") => tones_on)
    /\ [](pc = "done" => (~tones_on /\ spent = asked))
    /\ [][/\ (tones_on /\ ~tones_on') => (spent = asked /\ milliseconds = 0)
          /\ spent' = spent + 1 =>
                (millisec_flag /\ ~millisec_flag' /\ pending >= 1)
          /\ (overflows' # overflows /\ ~InPlay) =>
                OCR0A' = SINE_MIDPOINT]_vars

C17_Witness ==
    /\ pc = "done" /\ ~tones_on
    /\ tone_a_step = ToneStep(MF4) /\ tone_b_step = ToneStep(MF6)
    /\ asked = MaxPlay /\ spent = MaxPlay
    /\ tone_a_place > 0

(* C18: the bands of getkey leave no reading out: whenever getkey returns  *)
(* on an agreed reading above the lower bound of the SEIZE band, it        *)
(* returns a key and not "no key".                                         *)
C18_BandsContiguous ==
    (pc = "kp_done" /\ voltage > 16) => retval # KEY_NOTHING

(* C19: getkey returns only on a second conversion that equals the reading *)
(* taken after the debounce wait, and then the key of that reading; when   *)
(* the two differ it returns nothing and starts over; and as long as the   *)
(* level on the ladder never changed, every call returns the same key,     *)
(* the key of that level, which is "no key" for a level below 13.          *)
C19_AgreeingPair ==
    [][/\ (pc # "kp_done" /\ pc' = "kp_done") =>
             /\ pc = "kp_conv2" /\ adch = level
             /\ voltage' = adch /\ adch' = voltage'
             /\ spent = DEBOUNCE_TIME
             /\ retval' = Classify(voltage')
       /\ (pc = "kp_conv2" /\ pc' # "kp_conv2" /\ adch # level) =>
             /\ pc' = "kp_conv1"
             /\ retval' = retval /\ calls' = calls
       /\ (pc' = "kp_done" /\ bounces' = 0) =>
             /\ retval' = Classify(level')
             /\ retval' = first'
             /\ level' < 13 => retval' = KEY_NOTHING]_vars

C19_Witness ==
    /\ pc = "kp_done" /\ calls = MaxCalls /\ bounces = 0
    /\ level = KeyVolts(KEY_7) /\ retval = KEY_7 /\ first = KEY_7

(* C20: start-up gets past the header checks whatever the header holds;    *)
(* when it does, the mode is the stored one if that lies in                *)
(* MODE_MIN..MODE_MAX and MF otherwise, the length is the stored one if    *)
(* that is 75 or 120 and 75 otherwise, and what was played is four 75 ms   *)
(* chirps at 880 Hz exactly when the stored mode was out of range,         *)
(* followed by four 75 ms chirps at 1760 Hz exactly when the stored        *)
(* length was neither 75 nor 120.                                          *)
C20_HeaderValidation ==
    /\ <>(pc = "startup")
    /\ [](pc = "startup" =>
            LET m == eeprom_read_byte(eeprom, EEPROM_STARTUP_TONE_MODE)
                l == eeprom_read_byte(eeprom, EEPROM_STARTUP_TONE_LENGTH)
                mode_ok == m >= MODE_MIN /\ m <= MODE_MAX
                length_ok == l \in {75, 120}
                four(f) == [i \in 1..4 |-> Play(75, f, f)]
            IN  /\ tone_mode = IF mode_ok THEN m ELSE MODE_MF
                /\ tone_length = IF length_ok THEN l ELSE 75
                /\ heard = (IF mode_ok THEN <<>> ELSE four(880))
                           \o (IF length_ok THEN <<>> ELSE four(1760))
                /\ ~tones_on)

C20_Witness ==
    /\ pc = "startup"
    /\ eeprom_read_byte(eeprom, EEPROM_STARTUP_TONE_MODE) = 255
    /\ eeprom_read_byte(eeprom, EEPROM_STARTUP_TONE_LENGTH) = 255
    /\ tone_mode = MODE_MF /\ tone_length = 75
    /\ Len(heard) = 8
    /\ heard[4] = Play(75, 880, 880) /\ heard[5] = Play(75, 1760, 1760)

(* C21: the two header bytes change only in the write of the set-default   *)
(* path of start-up, which is taken only when the first getkey() of        *)
(* start-up returned SEIZE, and then to the live mode and length; the      *)
(* header checks at power-on write nothing; without the set-default path   *)
(* (a mode key held at power-on included) the header is never written;     *)
(* and once the main loop was entered the header stays as it is.           *)
C21_HeaderWrites ==
    [][LET hdr(e) == <<eeprom_read_byte(e, EEPROM_STARTUP_TONE_MODE),
                       eeprom_read_byte(e, EEPROM_STARTUP_TONE_LENGTH)>>
       IN  /\ hdr(eeprom') # hdr(eeprom) =>
                 /\ pc = "su_write" /\ startup_set
                 /\ mode0 = ERASED
                 /\ hdr(eeprom') = <<tone_mode, tone_length>>
           /\ pc = "boot" => eeprom' = eeprom
           /\ (~startup_set /\ startup_set') =>
                 (pc = "su_key" /\ retval = KEY_SEIZE /\ acts = 0)
           /\ ~startup_set' => hdr(eeprom') = hdr(eeprom)
           /\ mode0 # ERASED => hdr(eeprom') = hdr(eeprom)]_vars

C21_Witness ==
    /\ plan[1] = "Override" /\ ~startup_set
    /\ mode0 = MODE_DTMF /\ tone_mode = MODE_DTMF
    /\ tone_length = TONE_LENGTH_FAST
    /\ eeprom_read_byte(eeprom, EEPROM_STARTUP_TONE_MODE) = ERASED
    /\ eeprom_read_byte(eeprom, EEPROM_STARTUP_TONE_LENGTH) = ERASED

(* C22: from the header checks at power-on onwards, playback of stored     *)
(* chunks and the start-up paths included, tone_mode is one of the five    *)
(* modes MODE_MIN..MODE_MAX and tone_length is 75 or 120.                  *)
C22_LiveSettingsValid ==
    pc # "boot" =>
        /\ tone_mode \in {MODE_MF, MODE_DTMF, MODE_REDBOX, MODE_GREENBOX,
                           MODE_PULSE}
        /\ tone_length \in {75, 120}

C22_Witness ==
    /\ InPlayback /\ plan[1] \in {"Taps", "AfterThree"}
    /\ tone_mode = MODE_DTMF /\ mode0 = MODE_MF
    /\ eeprom_read_byte(eeprom, ChunkAt(KEY_2)) = MODE_MAX + 1

(* C23: in MF mode process_key, for each of the twelve keys other than     *)
(* SEIZE, plays one tone and no more, with the frequency pair of the MF    *)
(* table for that key, the same for every call (for key 5 the tone is      *)
(* tone_length ms of 900 Hz and 1300 Hz), and then sleeps tone_length ms   *)
(* when it was called with pause and does not sleep when it was not.       *)
C23_MFDispatch ==
    (pc \in Dispatched /\ tone_mode = MODE_MF /\ key \in KEY_1..KEY_HASH) =>
        LET pair == CASE key = KEY_1 -> <<700, 900>>
                      [] key = KEY_2 -> <<700, 1100>>
                      [] key = KEY_3 -> <<900, 1100>>
                      [] key = KEY_4 -> <<700, 1300>>
                      [] key = KEY_5 -> <<900, 1300>>
                      [] key = KEY_6 -> <<1100, 1300>>
                      [] key = KEY_7 -> <<700, 1500>>
                      [] key = KEY_8 -> <<900, 1500>>
                      [] key = KEY_9 -> <<1100, 1500>>
                      [] key = KEY_STAR -> <<1100, 1700>>
                      [] key = KEY_0 -> <<1300, 1500>>
                      [] key = KEY_HASH -> <<1500, 1700>>
        IN  /\ Len(heard) = IF pc = "dp_mem_done" THEN 2 ELSE 1
            /\ heard[1][1] = "play"
            /\ <<heard[1][3], heard[1][4]>> = pair
            /\ key = KEY_5 => heard[1] = Play(tone_length, 900, 1300)
            /\ pc = "dp_mem_done" => heard[2] = Sleep(tone_length)
            /\ ~tones_on

C23_Witness ==
    /\ pc = "dp_mem_done" /\ tone_mode = MODE_MF /\ key = KEY_5
    /\ tone_length = TONE_LENGTH_SLOW
    /\ heard = <<Play(120, 900, 1300), Sleep(120)>>

(* C24: in PULSE mode process_key plays, for a digit key 1..9, as many     *)
(* pulses as the digit and for key 0 ten, a pulse being 66 ms of 2600 Hz   *)
(* and then 34 ms of silence, with nothing between the pulses and nothing  *)
(* after the last but the 500 ms pause of a call with pause; for STAR and  *)
(* HASH it plays no tone.                                                  *)
C24_PulseDispatch ==
    (pc \in Dispatched /\ tone_mode = MODE_PULSE /\ key \in KEY_1..KEY_HASH) =>
        LET n == IF key \in KEY_1..KEY_9 THEN key
                 ELSE IF key = KEY_0 THEN 10 ELSE 0
            train == [i \in 1..(2 * n) |->
                         IF i % 2 = 1 THEN Play(66, 2600, 2600) ELSE Sleep(34)]
        IN  /\ heard = train \o (IF pc = "dp_mem_done" THEN <<Sleep(500)>>
                                  ELSE <<>>)
            /\ ~tones_on

C24_Witness ==
    /\ pc = "dp_key_done" /\ tone_mode = MODE_PULSE /\ key = KEY_0
    /\ Len(heard) = 20
    /\ heard[19] = Play(66, 2600, 2600) /\ heard[20] = Sleep(34)

(* C25: for the SEIZE key process_key does the same in every tone mode     *)
(* and for either tone length: one tone of 1000 ms at 2600 Hz, then a      *)
(* 1500 ms sleep when it was called with pause and nothing when it was     *)
(* not.                                                                    *)
C25_SeizeDispatch ==
    (pc \in Dispatched /\ key = KEY_SEIZE) =>
        /\ heard = <<Play(1000, 2600, 2600)>>
                     \o (IF pc = "dp_mem_done" THEN <<Sleep(1500)>> ELSE <<>>)
        /\ ~tones_on

C25_Witness ==
    /\ pc = "dp_mem_done" /\ key = KEY_SEIZE /\ tone_mode = MODE_GREENBOX
    /\ tone_length = TONE_LENGTH_SLOW
    /\ heard = <<Play(1000, 2600, 2600), Sleep(1500)>>

(* C26: when a long press on a memory key stores after more than           *)
(* EEPROM_CHUNK_SIZE - 1 short presses since the buffer was last emptied,  *)
(* the chunk written holds, after its mode byte, the last                  *)
(* EEPROM_CHUNK_SIZE - 1 keys pressed, in the order they were pressed.     *)
C26_LastKeysSaved ==
    (InStore /\ key \in MemKeys
             /\ Len(stored[key].keys) > EEPROM_CHUNK_SIZE - 1) =>
        LET ks == stored[key].keys
            n == Len(ks) - (EEPROM_CHUNK_SIZE - 1)
        IN  \A j \in 1..(EEPROM_CHUNK_SIZE - 1) :
               eeprom_read_byte(eeprom, ChunkAt(key) + j) = ks[n + j]

(* C27: a toggle or a store is done only when at least LONGPRESS_TIME      *)
(* millisecond ticks have come since the current hold armed the arbiter,   *)
(* and whenever process_longpress finds the flag raised while the key is   *)
(* held, the flag was raised by the last tick, a LONGPRESS_TIME-th tick of *)
(* this hold: a flag left raised by an earlier hold is never acted on.     *)
C27_NoStaleLongpress ==
    [][/\ acts' = acts + 1 => lp_ticks >= LONGPRESS_TIME
       /\ (pc = "lp_test" /\ Holding /\ longpress_flag) =>
             /\ lp_ticks >= LONGPRESS_TIME
             /\ lp_ticks % LONGPRESS_TIME = 0]_vars

C27_Witness ==
    /\ plan[1] = "Stale" /\ key = KEY_SEIZE
    /\ pc = "gk_conv1" /\ gk_ret = "lp_test"
    /\ longpress_on /\ longpress_flag /\ lp_ticks = 0
    /\ acts = 0 /\ ~playback_mode
    /\ typed = <<KEY_1, KEY_4>>

====
